---- MODULE Spec2Model ----
(***************************************************************************)
(* Binance balance proxy: one request through the serverless handler.      *)
(*                                                                         *)
(* Two handlers are modelled, selected by `variant`:                       *)
(*   "unified"  src/api/binance-balance.js:4-87  (unified wallet first,    *)
(*              per-account fallback, no timer)                            *)
(*   "timeout"  src/unnamed/part_002:4-65        (per-account aggregation  *)
(*              raced against an 8000 ms timer)                            *)
(* The helper functions (fetchAllPrices, getPriceInUsdt, fetchSpotTotal-   *)
(* Usdt, fetchFuturesBalance, fetch*AlgoBalance, fetchTradingBotBalance)   *)
(* are textually identical in both files.                                  *)
(*                                                                         *)
(* Numbers: decimal strings of the exchange are modelled by integers       *)
(* (parseFloat of a decimal integer string is that integer).  An absent    *)
(* object field is a field absent from the record, so `x.f || 0` is        *)
(* FieldOr(x, "f", 0).  JSON null is the record NullJson; reading a        *)
(* property of it is the TypeError the code would raise.                   *)
(***************************************************************************)
EXTENDS Integers, Sequences, FiniteSets, TLC

VARIABLES
    variant,    \* which handler serves the request
    req,        \* [method, hasKey, hasSecret]
    pc,         \* position of the aggregation: start, awaitWallet, awaitPrices, awaitAll, done
    fetchState, \* per fetcher: "idle", "inflight", "done"
    failed,     \* fetchers whose upstream call failed (rejected, non-ok, unparsable, wrong shape)
    ret,        \* what each fetcher returned (its resolved value)
    spotData,   \* the balances array the spot endpoint delivered (<<>> before / on failure)
    response,   \* the response sent: NoResponse or [status, error, body]
    sent,       \* number of res.status(..).json(..) calls made
    armed,      \* the timeout timer is set and has not fired (part_002:19-21)
    race,       \* Promise.race of part_002:52: "none", "pending" or "settled"
    elapsed,    \* the 8000 ms budget has passed since the handler was invoked
    pAsset,     \* SpecPrice: the asset given to getPriceInUsdt
    pTable,     \* SpecPrice: the price table given to getPriceInUsdt
    pResult,    \* SpecPrice: what getPriceInUsdt returned (-1 before the call)
    sOutcome,   \* SpecSpot: the outcome of the spot account fetch()
    sPrices,    \* SpecSpot: the price table given to fetchSpotTotalUsdt
    sResult,    \* SpecSpot: the promise fetchSpotTotalUsdt returned
    fOutcome,   \* SpecFutures: the outcome of the derivatives account fetch()
    fResult     \* SpecFutures: the promise fetchFuturesBalance returned

vars == <<variant, req, pc, fetchState, failed, ret, spotData, response, sent,
          armed, race, elapsed, pAsset, pTable, pResult,
          sOutcome, sPrices, sResult, fOutcome, fResult>>

handlerVars == <<variant, req, pc, fetchState, failed, ret, spotData, response,
                 sent, armed, race, elapsed>>

priceVars == <<pAsset, pTable, pResult>>

spotVars == <<sOutcome, sPrices, sResult>>

futuresVars == <<fOutcome, fResult>>

\* the variables of the specifications that call one helper function on its own
helperVars == <<priceVars, spotVars, futuresVars>>

-----------------------------------------------------------------------------
(* Bounds of the model *)

\* largest amount / price magnitude in an upstream body
MaxAmount == 2

\* largest price in a table given to getPriceInUsdt (SpecPrice)
MaxPrice == 3

-----------------------------------------------------------------------------
(* JSON values *)

NullJson == [json |-> "null"]

IsNull(x) == "json" \in DOMAIN x /\ x.json = "null"

\* x.f || d  for a numeric or string field
FieldOr(x, f, d) == IF f \in DOMAIN x THEN x[f] ELSE d

\* sequences over S of length 0..n
SeqUpTo(S, n) == UNION {[1..k -> S] : k \in 0..n}

\* the outcomes of one fetch(): the promise rejects, the status is not ok,
\* resp.json() rejects, or a JSON body arrives
Outcomes(bodies) ==
    {[kind |-> k, data |-> NullJson] : k \in {"reject", "notok", "badjson"}}
    \cup {[kind |-> "ok", data |-> b] : b \in bodies}

-----------------------------------------------------------------------------
(* What the exchange can deliver *)

\* amounts seen in upstream bodies: a loss, nothing, a holding
Amounts == {-1, 0, MaxAmount}

WalletNames == {"Spot", "USDⓈ-M Futures", "USDT-M Futures", "Trading Bots", "Funding"}

\* most entries a unified wallet response holds
MaxWallets == 2

WalletEntries ==
    {[walletName |-> n, balance |-> b, activate |-> a] :
        n \in WalletNames, b \in Amounts, a \in BOOLEAN}
    \cup {NullJson}

\* GET /sapi/v1/asset/wallet/balance: an array, or a JSON value that is no array
WalletBodies ==
    {[json |-> "array", items |-> w] : w \in SeqUpTo(WalletEntries, MaxWallets)}
    \cup {NullJson}

Assets == {"USDT", "ETH", "BTC", "BNB"}

Ticker(s, p) == [symbol |-> s, price |-> p]

\* GET /api/v3/ticker/price: an array of tickers, or something that cannot be iterated
PriceBodies ==
    {[json |-> "array", items |-> l] :
        l \in {<< >>,
               <<Ticker("ETHUSDT", MaxAmount)>>,
               <<Ticker("ETHUSDT", 0), Ticker("ETHBTC", 1), Ticker("BTCUSDT", MaxAmount)>>,
               <<Ticker("ETHBNB", MaxAmount), Ticker("BNBUSDT", MaxAmount)>>,
               <<Ticker("ETHUSDT", 1), NullJson>>}}
    \cup {NullJson}

Balance(a, f, l) == [asset |-> a, free |-> f, locked |-> l]

\* GET /api/v3/account: an object with balances, an object without, or null
SpotBodies ==
    {[json |-> "object", balances |-> b] :
        b \in {<< >>,
               <<Balance("USDT", MaxAmount, 0)>>,
               <<Balance("ETH", 1, 1)>>,
               <<Balance("USDT", MaxAmount, 1), Balance("ETH", MaxAmount, 0)>>,
               <<Balance("USDT", 0, 0), Balance("ETH", -1, 0), Balance("USDT", 1, 0)>>,
               <<Balance("USDT", MaxAmount, 0), NullJson>>}}
    \cup {[json |-> "object"], NullJson}

JsBool(b) == [type |-> "boolean", b |-> b]

JsStr(s) == [type |-> "string", s |-> s]

JsArray(items) == [type |-> "array", items |-> items]

JsNull == [type |-> "null"]

JsUndefined == [type |-> "undefined"]

\* the isolated flag of a position as JSON delivers it: a boolean, a string,
\* null, or an array around one of these
IsolatedFlags ==
    {JsBool(TRUE), JsBool(FALSE), JsStr("true"), JsStr("false"), JsStr("TRUE"), JsNull,
     JsArray(<<JsBool(TRUE)>>), JsArray(<<JsStr("true")>>), JsArray(<<JsBool(FALSE)>>),
     JsArray(<<JsNull, JsBool(TRUE)>>)}

Position(i, w, p) == [isolated |-> i, isolatedWallet |-> w, unrealizedProfit |-> p]

\* GET /fapi/v2/account
FuturesBodies ==
    {[json |-> "object", totalMarginBalance |-> m, positions |-> p] :
        m \in Amounts,
        p \in {<< >>}
              \cup {<<Position(i, MaxAmount, 1)>> : i \in IsolatedFlags}
              \cup {<<Position(JsBool(TRUE), 0, -MaxAmount - 1),
                      Position(JsStr("true"), 1, 0)>>,
                    <<Position(JsBool(TRUE), MaxAmount, 1), NullJson>>}}
    \cup {[json |-> "object"], NullJson}

OrderLists ==
    {<< >>,
     <<[investedQty |-> MaxAmount, unrealizedPnl |-> -1]>>,
     <<[investedQty |-> 0, totalInvested |-> 1, pnl |-> 1], [amount |-> 1]>>,
     <<[investedQty |-> 1, unrealizedPnl |-> -MaxAmount]>>,
     <<[amount |-> 1], NullJson>>}

\* GET /sapi/v1/algo/{spot,futures}/openOrders: an array, {orders: [...]}, {} or null
AlgoBodies ==
    {[json |-> "array", items |-> o] : o \in OrderLists}
    \cup {[json |-> "object", orders |-> o] : o \in OrderLists}
    \cup {[json |-> "object"], NullJson}

-----------------------------------------------------------------------------
(* The fetchers: each maps the outcome of its fetch() to the settled state  *)
(* of the promise the async function returns                               *)

Pending == [status |-> "pending"]

Fulfilled(v) == [status |-> "fulfilled", value |-> v]

Rejected == [status |-> "rejected"]

\* try { ... } catch { return [] }
fetchWalletBalances(o) ==
    IF o.kind # "ok" THEN Fulfilled(<< >>)
    ELSE IF o.data.json = "array" THEN Fulfilled(o.data.items)
    ELSE Fulfilled(<< >>)

EmptyTable == [s \in {} |-> 0]

\* priceMap[item.symbol] = parseFloat(item.price), in array order; threw = a TypeError
RECURSIVE PriceLoop(_, _)
PriceLoop(items, priceMap) ==
    IF items = << >> THEN [threw |-> FALSE, map |-> priceMap]
    ELSE IF IsNull(Head(items)) THEN [threw |-> TRUE, map |-> priceMap]
    ELSE LET item == Head(items)
         IN  PriceLoop(Tail(items),
                       [s \in DOMAIN priceMap \cup {item.symbol} |->
                            IF s = item.symbol THEN item.price ELSE priceMap[s]])

\* the same function without its try/catch
fetchAllPricesRaises(o) ==
    IF o.kind # "ok" THEN Rejected
    ELSE IF o.data.json # "array" THEN Rejected
    ELSE LET r == PriceLoop(o.data.items, EmptyTable)
         IN  IF r.threw THEN Rejected ELSE Fulfilled(r.map)

fetchAllPrices(o) ==
    IF o.kind # "ok" THEN Fulfilled(EmptyTable)
    ELSE IF o.data.json # "array" THEN Fulfilled(EmptyTable)
    ELSE LET r == PriceLoop(o.data.items, EmptyTable)
         IN  IF r.threw THEN Fulfilled(EmptyTable) ELSE Fulfilled(r.map)

\* prices[k] is truthy: present and not 0
Truthy(prices, k) == k \in DOMAIN prices /\ prices[k] # 0

\* the same function trying the BNB bridge before the BTC bridge
getPriceInUsdtBnbFirst(asset, prices) ==
    IF asset = "USDT" THEN 1
    ELSE IF Truthy(prices, asset \o "USDT") THEN prices[asset \o "USDT"]
    ELSE IF Truthy(prices, asset \o "BNB") /\ Truthy(prices, "BNBUSDT")
         THEN prices[asset \o "BNB"] * prices["BNBUSDT"]
    ELSE IF Truthy(prices, asset \o "BTC") /\ Truthy(prices, "BTCUSDT")
         THEN prices[asset \o "BTC"] * prices["BTCUSDT"]
    ELSE 0

getPriceInUsdt(asset, prices) ==
    IF asset = "USDT" THEN 1
    ELSE IF Truthy(prices, asset \o "USDT") THEN prices[asset \o "USDT"]
    ELSE IF Truthy(prices, asset \o "BTC") /\ Truthy(prices, "BTCUSDT")
         THEN prices[asset \o "BTC"] * prices["BTCUSDT"]
    ELSE IF Truthy(prices, asset \o "BNB") /\ Truthy(prices, "BNBUSDT")
         THEN prices[asset \o "BNB"] * prices["BNBUSDT"]
    ELSE 0

\* the loop with the `if (total <= 0) continue` test left out
RECURSIVE SpotLoopNoSkip(_, _, _)
SpotLoopNoSkip(balances, prices, totalUsdt) ==
    IF balances = << >> THEN [threw |-> FALSE, total |-> totalUsdt]
    ELSE IF IsNull(Head(balances)) THEN [threw |-> TRUE, total |-> totalUsdt]
    ELSE LET balance == Head(balances)
             total   == FieldOr(balance, "free", 0) + FieldOr(balance, "locked", 0)
         IN  SpotLoopNoSkip(Tail(balances), prices,
                            totalUsdt + total * getPriceInUsdt(balance.asset, prices))

\* for (const balance of data.balances || []) { ... }
RECURSIVE SpotLoop(_, _, _)
SpotLoop(balances, prices, totalUsdt) ==
    IF balances = << >> THEN [threw |-> FALSE, total |-> totalUsdt]
    ELSE IF IsNull(Head(balances)) THEN [threw |-> TRUE, total |-> totalUsdt]
    ELSE LET balance == Head(balances)
             total   == FieldOr(balance, "free", 0) + FieldOr(balance, "locked", 0)
         IN  IF total <= 0
             THEN SpotLoop(Tail(balances), prices, totalUsdt)
             ELSE SpotLoop(Tail(balances), prices,
                           totalUsdt + total * getPriceInUsdt(balance.asset, prices))

\* the same function returning the sum so far from its catch block
fetchSpotTotalUsdtPartial(o, prices) ==
    IF o.kind # "ok" THEN Fulfilled(0)
    ELSE IF IsNull(o.data) THEN Fulfilled(0)
    ELSE Fulfilled(SpotLoop(FieldOr(o.data, "balances", << >>), prices, 0).total)

fetchSpotTotalUsdt(o, prices) ==
    IF o.kind # "ok" THEN Fulfilled(0)
    ELSE IF IsNull(o.data) THEN Fulfilled(0)
    ELSE LET r == SpotLoop(FieldOr(o.data, "balances", << >>), prices, 0)
         IN  IF r.threw THEN Fulfilled(0) ELSE Fulfilled(r.total)

ZeroFutures == [cross |-> 0, isolated |-> 0, total |-> 0]

\* String(v): a primitive prints as itself, an array as its elements joined
\* by commas, a null or undefined element as the empty string
RECURSIVE JsString(_)
JsString(v) ==
    IF v.type = "boolean" THEN (IF v.b THEN "true" ELSE "false")
    ELSE IF v.type = "string" THEN v.s
    ELSE IF v.type = "array"
         THEN LET elem(e) == IF e.type \in {"null", "undefined"} THEN "" ELSE JsString(e)
              IN  IF v.items = << >> THEN ""
                  ELSE IF Len(v.items) = 1 THEN elem(v.items[1])
                  ELSE elem(v.items[1]) \o "," \o JsString(JsArray(Tail(v.items)))
    ELSE v.type

\* position.isolated === true || String(position.isolated) === 'true'
IsIsolated(flag) ==
    \/ flag.type = "boolean" /\ flag.b
    \/ JsString(flag) = "true"

RECURSIVE PositionLoop(_, _)
PositionLoop(positions, isolated) ==
    IF positions = << >> THEN [threw |-> FALSE, isolated |-> isolated]
    ELSE IF IsNull(Head(positions)) THEN [threw |-> TRUE, isolated |-> isolated]
    ELSE LET position == Head(positions)
         IN  IF IsIsolated(FieldOr(position, "isolated", JsUndefined))
             THEN PositionLoop(Tail(positions),
                               isolated + (FieldOr(position, "isolatedWallet", 0)
                                           + FieldOr(position, "unrealizedProfit", 0)))
             ELSE PositionLoop(Tail(positions), isolated)

fetchFuturesBalance(o) ==
    IF o.kind # "ok" THEN Fulfilled(ZeroFutures)
    ELSE IF IsNull(o.data) THEN Fulfilled(ZeroFutures)
    ELSE LET cross == FieldOr(o.data, "totalMarginBalance", 0)
             r     == PositionLoop(FieldOr(o.data, "positions", << >>), 0)
         IN  IF r.threw THEN Fulfilled(ZeroFutures)
             ELSE Fulfilled([cross |-> cross, isolated |-> r.isolated,
                             total |-> cross + r.isolated])

\* a || b || c || 0 over the numeric fields of an order
FirstTruthy(x, fields) ==
    IF \E i \in 1..Len(fields) : FieldOr(x, fields[i], 0) # 0
    THEN LET i == CHOOSE j \in 1..Len(fields) :
                    /\ FieldOr(x, fields[j], 0) # 0
                    /\ \A k \in 1..(j - 1) : FieldOr(x, fields[k], 0) = 0
         IN  x[fields[i]]
    ELSE 0

RECURSIVE OrderLoop(_, _)
OrderLoop(orders, totalBalance) ==
    IF orders = << >> THEN [threw |-> FALSE, total |-> totalBalance]
    ELSE IF IsNull(Head(orders)) THEN [threw |-> TRUE, total |-> totalBalance]
    ELSE LET order      == Head(orders)
             orderValue == FirstTruthy(order, <<"investedQty", "totalInvested", "amount">>)
                           + FirstTruthy(order, <<"unrealizedPnl", "pnl">>)
         IN  OrderLoop(Tail(orders),
                       IF orderValue > 0 THEN totalBalance + orderValue ELSE totalBalance)

\* fetchSpotAlgoBalance and fetchFuturesAlgoBalance differ only in the URL
AlgoBalance(o) ==
    IF o.kind # "ok" THEN Fulfilled(0)
    ELSE IF IsNull(o.data) THEN Fulfilled(0)
    ELSE LET orders == IF o.data.json = "array" THEN o.data.items
                       ELSE FieldOr(o.data, "orders", << >>)
             r      == OrderLoop(orders, 0)
         IN  IF r.threw THEN Fulfilled(0) ELSE Fulfilled(r.total)

fetchSpotAlgoBalance(o) == AlgoBalance(o)

fetchFuturesAlgoBalance(o) == AlgoBalance(o)

\* the array a body carries: the body itself, or its field `field`
BodyItems(o, field) ==
    IF o.kind # "ok" \/ IsNull(o.data) THEN << >>
    ELSE IF o.data.json = "array" THEN o.data.items
    ELSE FieldOr(o.data, field, << >>)

\* the upstream call did not deliver a usable body: transport failure, non-ok
\* status, unparsable body, null where an object or array is expected, or a
\* null entry inside the array
UpstreamFailed(o, field) ==
    \/ o.kind # "ok"
    \/ IsNull(o.data)
    \/ \E i \in 1..Len(BodyItems(o, field)) : IsNull(BodyItems(o, field)[i])

-----------------------------------------------------------------------------
(* Responses *)

EmptyBody == [k \in {} |-> 0]

NoResponse == [status |-> 0, error |-> "", body |-> EmptyBody]

MethodNotAllowed == [status |-> 405, error |-> "Method not allowed", body |-> EmptyBody]

MissingCredentials ==
    [status |-> 500, error |-> "Missing BINANCE_KEY or BINANCE_SECRET", body |-> EmptyBody]

\* the catch block of the unified handler, binance-balance.js:76-86
UnifiedError(message) ==
    [status |-> 500, error |-> message,
     body |-> [totalUsdt |-> 0, spotUsdt |-> 0, futuresTotalUsdt |-> 0,
               tradingBotUsdt |-> 0]]

\* the catch block of the timeout handler, part_002:55-64
TimeoutVariantError(message) ==
    [status |-> 500, error |-> message,
     body |-> [totalUsdt |-> 0, spotUsdt |-> 0, futuresTotalUsdt |-> 0]]

\* the checks with the method test left out
PreflightNoMethodCheck(r) ==
    IF ~r.hasKey \/ ~r.hasSecret THEN MissingCredentials ELSE NoResponse

\* the checks before the try block; NoResponse = the request goes on
Preflight(r) ==
    IF r.method # "GET" THEN MethodNotAllowed
    ELSE IF ~r.hasKey \/ ~r.hasSecret THEN MissingCredentials
    ELSE NoResponse

-----------------------------------------------------------------------------
(* The unified handler, binance-balance.js:16-75 *)

ZeroTotals == [spotUsdt |-> 0, futuresTotalUsdt |-> 0, tradingBotUsdt |-> 0, totalUsdt |-> 0]

\* the loop with the `wallet.activate &&` test left out of the total
RECURSIVE WalletLoopAnyWallet(_, _)
WalletLoopAnyWallet(wallets, acc) ==
    IF wallets = << >> THEN [threw |-> FALSE, acc |-> acc]
    ELSE IF IsNull(Head(wallets)) THEN [threw |-> TRUE, acc |-> acc]
    ELSE LET wallet     == Head(wallets)
             balance    == FieldOr(wallet, "balance", 0)
             walletName == FieldOr(wallet, "walletName", "")
             named      ==
                 IF walletName = "Spot" THEN [acc EXCEPT !.spotUsdt = balance]
                 ELSE IF walletName = "USDⓈ-M Futures" \/ walletName = "USDT-M Futures"
                      THEN [acc EXCEPT !.futuresTotalUsdt = balance]
                 ELSE IF walletName = "Trading Bots"
                      THEN [acc EXCEPT !.tradingBotUsdt = balance]
                 ELSE acc
         IN  WalletLoopAnyWallet(Tail(wallets),
                                 IF balance > 0
                                 THEN [named EXCEPT !.totalUsdt = @ + balance]
                                 ELSE named)

\* for (const wallet of walletBalances || []) { ... }
RECURSIVE WalletLoop(_, _)
WalletLoop(wallets, acc) ==
    IF wallets = << >> THEN [threw |-> FALSE, acc |-> acc]
    ELSE IF IsNull(Head(wallets)) THEN [threw |-> TRUE, acc |-> acc]
    ELSE LET wallet     == Head(wallets)
             balance    == FieldOr(wallet, "balance", 0)
             walletName == FieldOr(wallet, "walletName", "")
             named      ==
                 IF walletName = "Spot" THEN [acc EXCEPT !.spotUsdt = balance]
                 ELSE IF walletName = "USDⓈ-M Futures" \/ walletName = "USDT-M Futures"
                      THEN [acc EXCEPT !.futuresTotalUsdt = balance]
                 ELSE IF walletName = "Trading Bots"
                      THEN [acc EXCEPT !.tradingBotUsdt = balance]
                 ELSE acc
         IN  WalletLoop(Tail(wallets),
                        IF FieldOr(wallet, "activate", FALSE) /\ balance > 0
                        THEN [named EXCEPT !.totalUsdt = @ + balance]
                        ELSE named)

\* lines 60-64: the totals after the fallback's Promise.allSettled
FallbackTotals(acc, spotResult, futuresResult) ==
    LET spotUsdt == IF spotResult.status = "fulfilled" THEN spotResult.value
                    ELSE acc.spotUsdt
        futures  == IF futuresResult.status = "fulfilled" THEN futuresResult.value
                    ELSE ZeroFutures
        futuresTotalUsdt == IF futures.total # 0 THEN futures.total
                            ELSE acc.futuresTotalUsdt
    IN  [spotUsdt |-> spotUsdt, futuresTotalUsdt |-> futuresTotalUsdt,
         tradingBotUsdt |-> acc.tradingBotUsdt,
         totalUsdt |-> spotUsdt + futuresTotalUsdt + acc.tradingBotUsdt]

\* lines 67-75
UnifiedOk(t) ==
    [status |-> 200, error |-> "",
     body |-> [spotUsdt |-> t.spotUsdt,
               futuresCrossUsdt |-> t.futuresTotalUsdt,
               futuresIsolatedUsdt |-> 0,
               futuresTotalUsdt |-> t.futuresTotalUsdt,
               tradingBotUsdt |-> t.tradingBotUsdt,
               tradingBotSapiUsdt |-> 0,
               totalUsdt |-> t.totalUsdt]]

-----------------------------------------------------------------------------
(* The timeout handler, part_002:16-54 *)

\* lines 35-49: the result object built after Promise.allSettled
AggregateResult(spotResult, futuresResult, tradingBotResult) ==
    LET spot    == IF spotResult.status = "fulfilled" THEN spotResult.value ELSE 0
        futures == IF futuresResult.status = "fulfilled" THEN futuresResult.value
                   ELSE ZeroFutures
        tradingBotSapi == IF tradingBotResult.status = "fulfilled"
                          THEN tradingBotResult.value ELSE 0
    IN  [spotUsdt |-> spot,
         futuresCrossUsdt |-> futures.cross,
         futuresIsolatedUsdt |-> futures.isolated,
         futuresTotalUsdt |-> futures.total,
         tradingBotSapiUsdt |-> tradingBotSapi,
         totalUsdt |-> spot + futures.total + tradingBotSapi]

\* fetchTradingBotBalance: two awaits in sequence inside try/catch
fetchTradingBotBalance(spotBot, futuresBot) ==
    IF spotBot.status = "fulfilled" /\ futuresBot.status = "fulfilled"
    THEN Fulfilled(spotBot.value + futuresBot.value)
    ELSE Fulfilled(0)

-----------------------------------------------------------------------------
(* One request *)

Fetchers == {"wallet", "prices", "spot", "futures", "bot", "spotAlgo", "futuresAlgo"}

Requests == [method : {"GET", "POST"}, hasKey : BOOLEAN, hasSecret : BOOLEAN]

\* the spot fetch awaited on its own before anything else is started
AccountFetchersSpotFirst(v) == {"spot"}

\* the promises handed to Promise.allSettled, and the call each one issues at once
\* (binance-balance.js:55-58, part_002:28-32)
AccountFetchers(v) ==
    IF v = "unified" THEN {"spot", "futures"}
    ELSE {"spot", "futures", "bot", "spotAlgo"}

\* the results Promise.allSettled waits for
Joined(v) == IF v = "unified" THEN {"spot", "futures"} ELSE {"spot", "futures", "bot"}

HandlerInit ==
    /\ pc = "start"
    /\ fetchState = [f \in Fetchers |-> "idle"]
    /\ failed = {}
    /\ ret = [f \in Fetchers |-> Pending]
    /\ spotData = << >>
    /\ response = NoResponse
    /\ sent = 0
    /\ armed = FALSE
    /\ race = "none"
    /\ elapsed = FALSE

PriceIdle ==
    /\ pAsset = "USDT"
    /\ pTable = EmptyTable
    /\ pResult = -1

SpotIdle ==
    /\ sOutcome = [kind |-> "reject", data |-> NullJson]
    /\ sPrices = EmptyTable
    /\ sResult = Pending

FuturesIdle ==
    /\ fOutcome = [kind |-> "reject", data |-> NullJson]
    /\ fResult = Pending

Init ==
    /\ variant \in {"unified", "timeout"}
    /\ req \in Requests
    /\ HandlerInit
    /\ PriceIdle
    /\ SpotIdle
    /\ FuturesIdle

\* res.status(..).json(..)
Send(r) ==
    /\ response' = r
    /\ sent' = sent + 1

\* the handler is called: the method and credential checks, then the first await
Invoke ==
    /\ pc = "start"
    /\ IF Preflight(req) # NoResponse
       THEN /\ Send(Preflight(req))
            /\ pc' = "done"
            /\ UNCHANGED <<fetchState, armed, race>>
       ELSE IF variant = "unified"
       THEN /\ fetchState' = [fetchState EXCEPT !.wallet = "inflight"]
            /\ pc' = "awaitWallet"
            /\ UNCHANGED <<response, sent, armed, race>>
       ELSE /\ armed' = TRUE
            /\ race' = "pending"
            /\ fetchState' = [fetchState EXCEPT !.prices = "inflight"]
            /\ pc' = "awaitPrices"
            /\ UNCHANGED <<response, sent>>
    /\ UNCHANGED <<variant, req, failed, ret, spotData, elapsed, helperVars>>

Mark(f, o, field) == IF UpstreamFailed(o, field) THEN failed \cup {f} ELSE failed

\* fetchWalletBalances settles and the unified handler runs on: lines 21-75
WalletSettles ==
    /\ pc = "awaitWallet"
    /\ fetchState.wallet = "inflight"
    /\ \E o \in Outcomes(WalletBodies) :
        LET settled == fetchWalletBalances(o)
            loop    == WalletLoop(settled.value, ZeroTotals)
        IN  /\ ret' = [ret EXCEPT !.wallet = settled]
            /\ failed' = Mark("wallet", o, "items")
            /\ IF settled.status # "fulfilled"
               THEN /\ Send(UnifiedError("rejected"))
                    /\ pc' = "done"
                    /\ fetchState' = [fetchState EXCEPT !.wallet = "done"]
               ELSE IF loop.threw
               THEN /\ Send(UnifiedError("TypeError"))
                    /\ pc' = "done"
                    /\ fetchState' = [fetchState EXCEPT !.wallet = "done"]
               ELSE IF Len(settled.value) = 0
               THEN /\ fetchState' = [fetchState EXCEPT !.wallet = "done",
                                                        !.prices = "inflight"]
                    /\ pc' = "awaitPrices"
                    /\ UNCHANGED <<response, sent>>
               ELSE /\ Send(UnifiedOk(loop.acc))
                    /\ pc' = "done"
                    /\ fetchState' = [fetchState EXCEPT !.wallet = "done"]
    /\ UNCHANGED <<variant, req, spotData, armed, race, elapsed, helperVars>>

\* the handler's catch block running for an exception of the aggregation
Catch(message) ==
    IF variant = "unified"
    THEN Send(UnifiedError(message)) /\ UNCHANGED race
    ELSE IF race = "pending"
    THEN Send(TimeoutVariantError(message)) /\ race' = "settled"
    ELSE UNCHANGED <<response, sent, race>>

\* fetchAllPrices settles; the account fetchers are started together
PricesSettle ==
    /\ pc = "awaitPrices"
    /\ fetchState.prices = "inflight"
    /\ \E o \in Outcomes(PriceBodies) :
        LET settled == fetchAllPrices(o)
        IN  /\ ret' = [ret EXCEPT !.prices = settled]
            /\ failed' = Mark("prices", o, "items")
            /\ IF settled.status # "fulfilled"
               THEN /\ Catch("Failed to fetch prices")
                    /\ pc' = "done"
                    /\ fetchState' = [fetchState EXCEPT !.prices = "done"]
               ELSE /\ fetchState' = [f \in Fetchers |->
                                        IF f = "prices" THEN "done"
                                        ELSE IF f \in AccountFetchers(variant) THEN "inflight"
                                        ELSE fetchState[f]]
                    /\ pc' = "awaitAll"
                    /\ UNCHANGED <<response, sent, race>>
    /\ UNCHANGED <<variant, req, spotData, armed, elapsed, helperVars>>

\* the aggregation sending its result itself, without looking at the race
JoinIgnoringRace(ret2, fs2) ==
    IF \A f \in Joined(variant) : fs2[f] = "done"
    THEN /\ pc' = "done"
         /\ IF variant = "unified"
            THEN /\ Send(UnifiedOk(FallbackTotals(WalletLoop(ret2.wallet.value, ZeroTotals).acc,
                                                  ret2.spot, ret2.futures)))
                 /\ UNCHANGED race
            ELSE /\ Send([status |-> 200, error |-> "",
                          body |-> AggregateResult(ret2.spot, ret2.futures, ret2.bot)])
                 /\ race' = "settled"
    ELSE UNCHANGED <<pc, response, sent, race>>

\* Promise.allSettled resolves once every joined fetcher has settled; the
\* handler then builds and sends the result
Join(ret2, fs2) ==
    IF \A f \in Joined(variant) : fs2[f] = "done"
    THEN /\ pc' = "done"
         /\ IF variant = "unified"
            THEN /\ Send(UnifiedOk(FallbackTotals(WalletLoop(ret2.wallet.value, ZeroTotals).acc,
                                                  ret2.spot, ret2.futures)))
                 /\ UNCHANGED race
            ELSE IF race = "pending"
            THEN /\ Send([status |-> 200, error |-> "",
                          body |-> AggregateResult(ret2.spot, ret2.futures, ret2.bot)])
                 /\ race' = "settled"
            ELSE UNCHANGED <<response, sent, race>>
    ELSE UNCHANGED <<pc, response, sent, race>>

SpotSettles ==
    /\ pc = "awaitAll"
    /\ fetchState.spot = "inflight"
    /\ \E o \in Outcomes(SpotBodies) :
        LET ret2 == [ret EXCEPT !.spot = fetchSpotTotalUsdt(o, ret.prices.value)]
            fs2  == [fetchState EXCEPT !.spot = "done"]
        IN  /\ ret' = ret2
            /\ fetchState' = fs2
            /\ spotData' = BodyItems(o, "balances")
            /\ failed' = Mark("spot", o, "balances")
            /\ Join(ret2, fs2)
    /\ UNCHANGED <<variant, req, armed, elapsed, helperVars>>

FuturesSettles ==
    /\ pc = "awaitAll"
    /\ fetchState.futures = "inflight"
    /\ \E o \in Outcomes(FuturesBodies) :
        LET ret2 == [ret EXCEPT !.futures = fetchFuturesBalance(o)]
            fs2  == [fetchState EXCEPT !.futures = "done"]
        IN  /\ ret' = ret2
            /\ fetchState' = fs2
            /\ failed' = Mark("futures", o, "positions")
            /\ Join(ret2, fs2)
    /\ UNCHANGED <<variant, req, spotData, armed, elapsed, helperVars>>

\* fetchSpotAlgoBalance settles inside fetchTradingBotBalance, which then
\* calls fetchFuturesAlgoBalance (or, on a rejection, returns 0 from its catch)
SpotAlgoSettles ==
    /\ pc = "awaitAll"
    /\ fetchState.spotAlgo = "inflight"
    /\ \E o \in Outcomes(AlgoBodies) :
        LET settled == fetchSpotAlgoBalance(o)
            caught  == settled.status # "fulfilled"
            ret2 == [ret EXCEPT !.spotAlgo = settled,
                                !.bot = IF caught THEN Fulfilled(0) ELSE @]
            fs2  == [fetchState EXCEPT !.spotAlgo = "done",
                                       !.futuresAlgo = IF caught THEN @ ELSE "inflight",
                                       !.bot = IF caught THEN "done" ELSE @]
        IN  /\ ret' = ret2
            /\ fetchState' = fs2
            /\ failed' = Mark("spotAlgo", o, "orders")
            /\ Join(ret2, fs2)
    /\ UNCHANGED <<variant, req, spotData, armed, elapsed, helperVars>>

FuturesAlgoSettles ==
    /\ pc = "awaitAll"
    /\ fetchState.futuresAlgo = "inflight"
    /\ \E o \in Outcomes(AlgoBodies) :
        LET settled == fetchFuturesAlgoBalance(o)
            ret2 == [ret EXCEPT !.futuresAlgo = settled,
                                !.bot = fetchTradingBotBalance(ret.spotAlgo, settled)]
            fs2  == [fetchState EXCEPT !.futuresAlgo = "done", !.bot = "done"]
        IN  /\ ret' = ret2
            /\ fetchState' = fs2
            /\ failed' = Mark("futuresAlgo", o, "orders")
            /\ Join(ret2, fs2)
    /\ UNCHANGED <<variant, req, spotData, armed, elapsed, helperVars>>

\* 8000 ms pass after the handler entered its try block.  The timeout
\* handler's timer fires and rejects the race; the unified handler set no timer
BudgetElapses ==
    /\ pc # "start"
    /\ Preflight(req) = NoResponse
    /\ ~elapsed
    /\ elapsed' = TRUE
    /\ armed' = FALSE
    /\ IF armed /\ race = "pending"
       THEN /\ Send(TimeoutVariantError("Request timeout"))
            /\ race' = "settled"
       ELSE UNCHANGED <<response, sent, race>>
    /\ UNCHANGED <<variant, req, pc, fetchState, failed, ret, spotData, helperVars>>

Next ==
    \/ Invoke
    \/ WalletSettles
    \/ PricesSettle
    \/ SpotSettles
    \/ FuturesSettles
    \/ SpotAlgoSettles
    \/ FuturesAlgoSettles
    \/ BudgetElapses

Spec == Init /\ [][Next]_vars

-----------------------------------------------------------------------------
(* getPriceInUsdt on its own: every asset against every price table *)

Symbols == {"ETHUSDT", "ETHBTC", "BTCUSDT", "ETHBNB", "BNBUSDT"}

PriceTables == UNION {[d -> 0..MaxPrice] : d \in SUBSET Symbols}

InitPrice ==
    /\ variant = "unified"
    /\ req = [method |-> "GET", hasKey |-> TRUE, hasSecret |-> TRUE]
    /\ HandlerInit
    /\ pAsset \in Assets
    /\ pTable \in PriceTables
    /\ pResult = -1
    /\ SpotIdle
    /\ FuturesIdle

Resolve ==
    /\ pResult = -1
    /\ pResult' = getPriceInUsdt(pAsset, pTable)
    /\ UNCHANGED <<pAsset, pTable, handlerVars, spotVars, futuresVars>>

NextPrice == Resolve

SpecPrice == InitPrice /\ [][NextPrice]_vars

-----------------------------------------------------------------------------
(* fetchSpotTotalUsdt on its own: every balances list against every table *)

\* most entries in the balances list of a spot account response
MaxBalances == 2

\* entries of data.balances: free and locked amounts of an asset, an entry
\* without a locked field, or null
SpotEntries ==
    {Balance(a, f, l) : a \in {"USDT", "ETH"}, f \in Amounts, l \in {0, 1}}
    \cup {[asset |-> "BTC", free |-> 1], NullJson}

SpotAccountBodies ==
    {[json |-> "object", balances |-> b] : b \in SeqUpTo(SpotEntries, MaxBalances)}
    \cup {[json |-> "object"], NullJson}

\* the tables fetchAllPrices can hand over, prices 0 or MaxPrice
SpotPriceTables ==
    UNION {[d -> {0, MaxPrice}] : d \in SUBSET {"ETHUSDT", "ETHBTC", "BTCUSDT"}}

InitSpot ==
    /\ variant = "unified"
    /\ req = [method |-> "GET", hasKey |-> TRUE, hasSecret |-> TRUE]
    /\ HandlerInit
    /\ PriceIdle
    /\ FuturesIdle
    /\ sOutcome \in Outcomes(SpotAccountBodies)
    /\ sPrices \in SpotPriceTables
    /\ sResult = Pending

SpotReturns ==
    /\ sResult = Pending
    /\ sResult' = fetchSpotTotalUsdt(sOutcome, sPrices)
    /\ UNCHANGED <<sOutcome, sPrices, handlerVars, priceVars, futuresVars>>

NextSpot == SpotReturns

SpecSpot == InitSpot /\ [][NextSpot]_vars

-----------------------------------------------------------------------------
(* fetchFuturesBalance on its own: every account body *)

\* most entries in the positions list of a derivatives account response
MaxPositions == 2

\* entries of data.positions: every flag with a wallet and a profit or loss,
\* an entry without a flag, an isolated entry without amounts, a cross entry
\* with a further field, or null
PositionEntries ==
    {Position(i, MaxAmount, p) : i \in IsolatedFlags, p \in {-1, 1}}
    \cup {[isolatedWallet |-> 1, unrealizedProfit |-> 1],
          [isolated |-> JsBool(TRUE), positionAmt |-> 0],
          [isolated |-> JsBool(FALSE), isolatedWallet |-> 1, unrealizedProfit |-> 0,
           positionAmt |-> 1],
          NullJson}

FuturesAccountBodies ==
    {[json |-> "object", totalMarginBalance |-> m, positions |-> p] :
        m \in Amounts, p \in SeqUpTo(PositionEntries, MaxPositions)}
    \cup {[json |-> "object", positions |-> p] : p \in SeqUpTo(PositionEntries, 1)}
    \cup {[json |-> "object"], NullJson}

InitFutures ==
    /\ variant = "unified"
    /\ req = [method |-> "GET", hasKey |-> TRUE, hasSecret |-> TRUE]
    /\ HandlerInit
    /\ PriceIdle
    /\ SpotIdle
    /\ fOutcome \in Outcomes(FuturesAccountBodies)
    /\ fResult = Pending

FuturesReturns ==
    /\ fResult = Pending
    /\ fResult' = fetchFuturesBalance(fOutcome)
    /\ UNCHANGED <<fOutcome, handlerVars, priceVars, spotVars>>

NextFutures == FuturesReturns

SpecFutures == InitFutures /\ [][NextFutures]_vars

-----------------------------------------------------------------------------
(* Properties of the handler *)

Body == response.body

\* the bot-balance field of a response body: tradingBotUsdt in the unified
\* handler (its tradingBotSapiUsdt is a reserved 0), tradingBotSapiUsdt in the
\* timeout handler
BotField(b) == FieldOr(b, "tradingBotUsdt", 0) + FieldOr(b, "tradingBotSapiUsdt", 0)

\* the response was built from a non-empty unified wallet result
FromUnifiedWallet ==
    /\ variant = "unified"
    /\ fetchState.wallet = "done"
    /\ Len(ret.wallet.value) > 0

\* the response was built by the per-account aggregation
FromPerAccount ==
    /\ pc = "done"
    /\ \A f \in Joined(variant) : fetchState[f] = "done"

\* a fetcher's contribution: its zero default once its upstream call failed
Contribution(f) ==
    IF f \notin failed THEN ret[f].value
    ELSE IF f = "futures" THEN ZeroFutures
    ELSE 0

\* sum of the balances of the entries that are active and positive
RECURSIVE ActivePositiveSum(_)
ActivePositiveSum(wallets) ==
    IF wallets = << >> THEN 0
    ELSE LET w == Head(wallets)
         IN  (IF w.activate /\ w.balance > 0 THEN w.balance ELSE 0)
             + ActivePositiveSum(Tail(wallets))

\* C1 as stated: in every 200 response, totalUsdt = spotUsdt + futuresTotalUsdt
\* + the bot-balance field, under either strategy.
C1_TotalIsSumOfCategories ==
    response.status = 200 =>
        Body.totalUsdt = Body.spotUsdt + Body.futuresTotalUsdt + BotField(Body)

\* C1 amended: a 200 response built by the per-account aggregation has
\* totalUsdt = spotUsdt + futuresTotalUsdt + the bot-balance field, a failed
\* category contributing 0; a 200 response built from a non-empty unified
\* wallet result has totalUsdt = the sum of the balances of all entries that
\* are active with a positive balance, whatever their wallet name.
C1_TotalPerStrategy ==
    response.status = 200 =>
        IF FromUnifiedWallet
        THEN Body.totalUsdt = ActivePositiveSum(ret.wallet.value)
        ELSE /\ Body.totalUsdt = Body.spotUsdt + Body.futuresTotalUsdt + BotField(Body)
             /\ "spot" \in failed => Body.spotUsdt = 0
             /\ "futures" \in failed => Body.futuresTotalUsdt = 0
             /\ {"spotAlgo", "futuresAlgo"} \subseteq failed => BotField(Body) = 0

\* C1 witness: a unified response whose total counts a wallet that is no category
C1_Witness ==
    /\ response.status = 200
    /\ FromUnifiedWallet
    /\ Len(ret.wallet.value) = 2
    /\ ret.wallet.value[2].walletName = "Funding"
    /\ Body.spotUsdt = MaxAmount
    /\ Body.totalUsdt = 2 * MaxAmount

\* C2 as stated: once the unified wallet fetch has returned a non-empty array,
\* no per-account fetcher is invoked, and the response carries the totals of
\* the unified entries with futuresIsolatedUsdt = 0.
C2_UnifiedSkipsPerAccount ==
    FromUnifiedWallet =>
        /\ \A f \in Fetchers \ {"wallet"} : fetchState[f] = "idle"
        /\ response # NoResponse =>
            /\ "futuresIsolatedUsdt" \in DOMAIN Body
            /\ Body.futuresIsolatedUsdt = 0
            /\ Body.totalUsdt = ActivePositiveSum(ret.wallet.value)

\* C3 as stated: whenever the unified wallet fetch returned empty, the spot,
\* derivatives and bot-balance fetches are all invoked, started together.
C3_AllThreeStarted ==
    (variant = "unified" /\ fetchState.wallet = "done" /\ Len(ret.wallet.value) = 0
        /\ pc \in {"awaitAll", "done"})
    => \A f \in {"spot", "futures", "bot"} : fetchState[f] # "idle"

\* C3 amended: whenever the unified wallet fetch returned empty, the unified
\* handler fetches the prices and then starts the spot fetch and the
\* derivatives fetch together, neither waiting for the other; it never invokes
\* the bot-balance fetch and reports tradingBotUsdt = 0; the spot value and the
\* derivatives total appear in its 200 response.  The timeout handler starts
\* the spot, derivatives and bot-balance fetches together and each result
\* appears in its 200 response.
C3_StartedTogether ==
    /\ (fetchState.spot = "idle") = (fetchState.futures = "idle")
    /\ variant = "timeout" => (fetchState.bot = "idle") = (fetchState.spot = "idle")
    /\ variant = "unified" =>
        /\ \A f \in {"bot", "spotAlgo", "futuresAlgo"} : fetchState[f] = "idle"
        /\ (fetchState.wallet = "done" /\ Len(ret.wallet.value) = 0
                /\ pc \in {"awaitAll", "done"})
           => \A f \in {"spot", "futures"} : fetchState[f] # "idle"
        /\ (response.status = 200 /\ ~FromUnifiedWallet) =>
            /\ Body.spotUsdt = ret.spot.value
            /\ Body.futuresTotalUsdt = ret.futures.value.total
            /\ Body.tradingBotUsdt = 0
    /\ (variant = "timeout" /\ fetchState.prices = "done") =>
        \A f \in {"spot", "futures", "bot"} : fetchState[f] # "idle"
    /\ (variant = "timeout" /\ response.status = 200) =>
        /\ Body.spotUsdt = ret.spot.value
        /\ Body.futuresCrossUsdt = ret.futures.value.cross
        /\ Body.futuresIsolatedUsdt = ret.futures.value.isolated
        /\ Body.futuresTotalUsdt = ret.futures.value.total
        /\ Body.tradingBotSapiUsdt = ret.bot.value

\* C3 witness: the fallback ran and answered with a spot and a derivatives value
C3_Witness ==
    /\ variant = "unified"
    /\ "wallet" \in failed
    /\ response.status = 200
    /\ Body.spotUsdt > 0
    /\ Body.futuresTotalUsdt < 0
    /\ fetchState.bot = "idle"

\* C4: when the per-account aggregation completes (before any timeout), the
\* handler answers 200; a fetcher whose upstream call failed contributes 0 and
\* every category's value is decided by its own upstream data alone (for spot:
\* the balances delivered and the price table), whatever the outcome of the
\* other fetchers.
C4_FailureIsolated ==
    (FromPerAccount /\ response.error # "Request timeout") =>
        /\ response.status = 200
        /\ Body.spotUsdt = Contribution("spot")
        /\ "spot" \notin failed =>
            Body.spotUsdt = SpotLoop(spotData, ret.prices.value, 0).total
        /\ Body.futuresTotalUsdt = Contribution("futures").total
        /\ "futures" \in failed => Body.futuresTotalUsdt = 0
        /\ variant = "unified" => Body.tradingBotUsdt = 0
        /\ variant = "timeout" =>
            /\ Body.futuresCrossUsdt = Contribution("futures").cross
            /\ Body.futuresIsolatedUsdt = Contribution("futures").isolated
            /\ Body.tradingBotSapiUsdt =
                   Contribution("spotAlgo") + Contribution("futuresAlgo")

\* C4 witness: exactly the derivatives fetch failed; spot and bot values stand
C4_Witness ==
    /\ variant = "timeout"
    /\ failed = {"futures"}
    /\ response.status = 200
    /\ Body.futuresTotalUsdt = 0
    /\ Body.spotUsdt > 0
    /\ Body.tradingBotSapiUsdt > 0

\* C5 as stated: for every GET with credentials, if the aggregation has not
\* completed when the budget elapses, the handler answers at that point with
\* zeroed totals and an error naming a timeout.
C5_TimeoutAnswers ==
    [][(~elapsed /\ elapsed' /\ response = NoResponse) =>
          /\ response'.status # 0
          /\ response'.error = "Request timeout"
          /\ \A k \in DOMAIN response'.body : response'.body[k] = 0]_vars

SignedFetchers == {"wallet", "spot", "futures", "spotAlgo", "futuresAlgo", "bot"}

\* C6 as stated: every signed fetcher resolves and never rejects, and once its
\* upstream call failed (transport, status, unparsable or malformed body) its
\* value is the zero default and no exception reaches the handler.
C6_FailuresAbsorbed ==
    /\ \A f \in SignedFetchers : ret[f].status # "rejected"
    /\ ("wallet" \in failed /\ fetchState.wallet = "done") =>
        /\ Len(ret.wallet.value) = 0
        /\ response.error # "TypeError"
    /\ ("spot" \in failed /\ fetchState.spot = "done") => ret.spot.value = 0
    /\ ("futures" \in failed /\ fetchState.futures = "done") =>
        ret.futures.value = ZeroFutures
    /\ ("spotAlgo" \in failed /\ fetchState.spotAlgo = "done") => ret.spotAlgo.value = 0
    /\ ("futuresAlgo" \in failed /\ fetchState.futuresAlgo = "done") =>
        ret.futuresAlgo.value = 0
    /\ ({"spotAlgo", "futuresAlgo"} \subseteq failed /\ fetchState.bot = "done") =>
        ret.bot.value = 0

\* the numeric keys of the handler's success response
NumericKeys(v) ==
    {"spotUsdt", "futuresCrossUsdt", "futuresIsolatedUsdt", "futuresTotalUsdt",
     "tradingBotSapiUsdt", "totalUsdt"}
    \cup (IF v = "unified" THEN {"tradingBotUsdt"} ELSE {})

\* C7 as stated: a response sent from the catch block has status 500, an error
\* descriptor and every numeric key of the success response, each 0.
C7_ErrorBodyComplete ==
    (response.status = 500 /\ response # MissingCredentials) =>
        /\ response.error # ""
        /\ NumericKeys(variant) \subseteq DOMAIN Body
        /\ \A k \in DOMAIN Body : Body[k] = 0

\* sum of free + locked over the USDT entries with a positive total
RECURSIVE UsdtOnly(_)
UsdtOnly(balances) ==
    IF balances = << >> THEN 0
    ELSE LET b == Head(balances)
         IN  (IF b.asset = "USDT" /\ b.free + b.locked > 0 THEN b.free + b.locked ELSE 0)
             + UsdtOnly(Tail(balances))

\* C8: when the price feed fails, fetchAllPrices resolves with the empty table
\* and the per-account aggregation (unless the timeout cut it short) still
\* answers 200, where only the USDT entries count in spotUsdt and the
\* derivatives and bot values are the ones their fetchers returned.
C8_PriceFeedFailsOpen ==
    ("prices" \in failed /\ fetchState.prices = "done") =>
        /\ ret.prices.status = "fulfilled"
        /\ ret.prices.value = EmptyTable
        /\ \A a \in Assets \ {"USDT"} : getPriceInUsdt(a, ret.prices.value) = 0
        /\ (FromPerAccount /\ response.error # "Request timeout") =>
            /\ response.status = 200
            /\ "spot" \notin failed => Body.spotUsdt = UsdtOnly(spotData)
            /\ Body.futuresTotalUsdt = ret.futures.value.total
            /\ variant = "timeout" => Body.tradingBotSapiUsdt = ret.bot.value

\* C8 witness: the feed failed, the account held USDT and ETH, only USDT counts
C8_Witness ==
    /\ "prices" \in failed
    /\ failed \cap {"spot", "futures"} = {}
    /\ response.status = 200
    /\ Len(spotData) = 2
    /\ spotData[2].asset = "ETH"
    /\ spotData[2].free > 0
    /\ Body.spotUsdt = MaxAmount + 1
    /\ Body.futuresTotalUsdt # 0

\* C9: an upstream call is issued only for a GET with both credentials; any
\* other method is answered 405 with an error body, a GET with a credential
\* missing is answered 500 naming the missing configuration, and in both cases
\* no upstream call is made.
C9_Preconditions ==
    /\ (\E f \in Fetchers : fetchState[f] # "idle") =>
        (req.method = "GET" /\ req.hasKey /\ req.hasSecret)
    /\ (pc # "start" /\ req.method # "GET") =>
        /\ response = MethodNotAllowed
        /\ sent = 1
        /\ \A f \in Fetchers : fetchState[f] = "idle"
    /\ (pc # "start" /\ req.method = "GET" /\ ~(req.hasKey /\ req.hasSecret)) =>
        /\ response = MissingCredentials
        /\ sent = 1
        /\ \A f \in Fetchers : fetchState[f] = "idle"

\* C9 witness: a POST was answered 405 without any upstream call
C9_Witness ==
    /\ req.method = "POST"
    /\ req.hasKey /\ req.hasSecret
    /\ response.status = 405
    /\ response.error = "Method not allowed"
    /\ \A f \in Fetchers : fetchState[f] = "idle"

\* sum of the balances of the active entries, whatever their sign
RECURSIVE ActiveSum(_)
ActiveSum(wallets) ==
    IF wallets = << >> THEN 0
    ELSE LET w == Head(wallets)
         IN  (IF w.activate THEN w.balance ELSE 0) + ActiveSum(Tail(wallets))

\* C13 as stated: a negative category or wallet value is never clamped to 0 or
\* dropped when the grand total is formed.  In a 200 response built from the
\* unified wallet, totalUsdt is the sum of the balances of the active wallets,
\* the negative ones included; in a 200 response of the per-account
\* aggregation, totalUsdt is spot + derivatives total + bot with the
\* derivatives total as its fetcher returned it, negative or not.
C13_NegativesReduceTotal ==
    response.status = 200 =>
        IF FromUnifiedWallet
        THEN Body.totalUsdt = ActiveSum(ret.wallet.value)
        ELSE /\ Body.futuresTotalUsdt = ret.futures.value.total
             /\ Body.totalUsdt = ret.spot.value + ret.futures.value.total + BotField(Body)

\* C14: every invocation sends exactly one response, in every order of timer
\* expiry and fetch completions.  Never more than one response is sent; once
\* the handler has run to its end, the race has settled or (timeout handler)
\* the budget has elapsed, one has been sent; and no later step changes it or
\* sends another, whether the timer fires after the aggregation answered or
\* fetchers complete after the timeout answered.
C14_ExactlyOneResponse ==
    /\ [](/\ sent <= 1
          /\ (sent = 1) = (response # NoResponse)
          /\ pc = "done" => sent = 1
          /\ race = "settled" => sent = 1
          /\ (variant = "timeout" /\ elapsed) => sent = 1)
    /\ [][response # NoResponse => (response' = response /\ sent' = sent)]_vars

\* C14 witness: the timeout answered first, then every fetcher completed, and
\* the timeout response is still the only one
C14_Witness ==
    /\ variant = "timeout"
    /\ elapsed
    /\ response.error = "Request timeout"
    /\ FromPerAccount
    /\ failed = {}
    /\ ret.spot.value > 0
    /\ sent = 1

-----------------------------------------------------------------------------
(* Properties of getPriceInUsdt, under SpecPrice *)

Present(t, k) == k \in DOMAIN t

\* C10 as stated: 1 for USDT; otherwise the first path whose pairs are present
\* in the table, in the order direct, BTC bridge, BNB bridge; 0 when none is.
C10_FirstPresentPath ==
    pResult # -1 =>
        pResult =
            IF pAsset = "USDT" THEN 1
            ELSE IF Present(pTable, pAsset \o "USDT") THEN pTable[pAsset \o "USDT"]
            ELSE IF Present(pTable, pAsset \o "BTC") /\ Present(pTable, "BTCUSDT")
                 THEN pTable[pAsset \o "BTC"] * pTable["BTCUSDT"]
            ELSE IF Present(pTable, pAsset \o "BNB") /\ Present(pTable, "BNBUSDT")
                 THEN pTable[pAsset \o "BNB"] * pTable["BNBUSDT"]
            ELSE 0

\* a pair resolves when the table holds it with a price other than 0
Usable(t, k) == Present(t, k) /\ t[k] # 0

\* C10 amended: 1 for USDT; otherwise the first path that resolves, in the
\* order direct pair, BTC bridge (both legs), BNB bridge (both legs), where a
\* pair resolves when it is present with a non-zero price; 0 when no path
\* resolves.  With only a direct pair present the result is that price, and
\* with only one bridge path present it is the product of both legs.
C10_FirstUsablePath ==
    pResult # -1 =>
        LET direct == Usable(pTable, pAsset \o "USDT")
            viaBtc == Usable(pTable, pAsset \o "BTC") /\ Usable(pTable, "BTCUSDT")
            viaBnb == Usable(pTable, pAsset \o "BNB") /\ Usable(pTable, "BNBUSDT")
        IN  /\ pAsset = "USDT" => pResult = 1
            /\ pAsset # "USDT" =>
                /\ direct => pResult = pTable[pAsset \o "USDT"]
                /\ (~direct /\ viaBtc) =>
                    pResult = pTable[pAsset \o "BTC"] * pTable["BTCUSDT"]
                /\ (~direct /\ ~viaBtc /\ viaBnb) =>
                    pResult = pTable[pAsset \o "BNB"] * pTable["BNBUSDT"]
                /\ (~direct /\ ~viaBtc /\ ~viaBnb) => pResult = 0
                /\ DOMAIN pTable = {pAsset \o "USDT"} =>
                    pResult = pTable[pAsset \o "USDT"]
                /\ (DOMAIN pTable = {pAsset \o "BTC", "BTCUSDT"} /\ pAsset # "BTC") =>
                    pResult = pTable[pAsset \o "BTC"] * pTable["BTCUSDT"]
                /\ (DOMAIN pTable = {pAsset \o "BNB", "BNBUSDT"} /\ pAsset # "BNB") =>
                    pResult = pTable[pAsset \o "BNB"] * pTable["BNBUSDT"]

\* C10 witness: ETH priced over the BNB bridge although a BTC leg is listed
C10_Witness ==
    /\ pAsset = "ETH"
    /\ DOMAIN pTable = {"ETHBTC", "ETHBNB", "BNBUSDT", "BTCUSDT"}
    /\ pTable["ETHBTC"] = 0
    /\ pTable["BTCUSDT"] = 1
    /\ pTable["ETHBNB"] = 2
    /\ pTable["BNBUSDT"] = MaxPrice
    /\ pResult = 2 * MaxPrice

-----------------------------------------------------------------------------
(* Properties of fetchSpotTotalUsdt, under SpecSpot *)

\* sum of f[i] over the indices in S
RECURSIVE SumValues(_, _)
SumValues(f, S) ==
    IF S = {} THEN 0
    ELSE LET i == CHOOSE j \in S : TRUE
         IN  f[i] + SumValues(f, S \ {i})

\* the balances list of a successful spot response (absent = empty)
sBalances == FieldOr(sOutcome.data, "balances", << >>)

\* the response arrived with status ok and a body whose entries are all objects
SpotSucceeded ==
    /\ sOutcome.kind = "ok"
    /\ ~IsNull(sOutcome.data)
    /\ \A i \in 1..Len(sBalances) : ~IsNull(sBalances[i])

\* free + locked of entry i, an absent amount counting 0
EntryTotal(i) == FieldOr(sBalances[i], "free", 0) + FieldOr(sBalances[i], "locked", 0)

\* C11: on a successful response fetchSpotTotalUsdt resolves with the sum of
\* (free + locked) * getPriceInUsdt(asset) over exactly the entries whose
\* free + locked is strictly positive; entries with a zero or negative total
\* contribute nothing and cause no error.
C11_SpotSum ==
    (sResult # Pending /\ SpotSucceeded) =>
        LET positive == {i \in 1..Len(sBalances) : EntryTotal(i) > 0}
            value    == [i \in 1..Len(sBalances) |->
                            EntryTotal(i) * getPriceInUsdt(sBalances[i].asset, sPrices)]
        IN  /\ sResult.status = "fulfilled"
            /\ sResult.value = SumValues(value, positive)

\* C11 witness: USDT and ETH holdings next to nothing; MaxAmount USDT and
\* MaxAmount + 1 ETH at ETHUSDT = MaxPrice
C11_Witness ==
    /\ sResult # Pending
    /\ SpotSucceeded
    /\ sBalances = <<Balance("USDT", MaxAmount, 0), Balance("ETH", MaxAmount, 1)>>
    /\ DOMAIN sPrices = {"ETHUSDT"}
    /\ sPrices["ETHUSDT"] = MaxPrice
    /\ sResult.value = MaxAmount + (MaxAmount + 1) * MaxPrice

-----------------------------------------------------------------------------
(* Properties of fetchFuturesBalance, under SpecFutures *)

\* the positions list of a successful derivatives response (absent = empty)
fPositions == FieldOr(fOutcome.data, "positions", << >>)

\* the response arrived with status ok and a body whose entries are all objects
FuturesSucceeded ==
    /\ fOutcome.kind = "ok"
    /\ ~IsNull(fOutcome.data)
    /\ \A i \in 1..Len(fPositions) : ~IsNull(fPositions[i])

\* the isolated flag of position i is the boolean true or the string "true"
FlagIsTrue(i) ==
    /\ "isolated" \in DOMAIN fPositions[i]
    /\ fPositions[i].isolated \in {JsBool(TRUE), JsStr("true")}

\* isolatedWallet + unrealizedProfit of position i, an absent amount counting 0
PositionValue ==
    [i \in 1..Len(fPositions) |->
        FieldOr(fPositions[i], "isolatedWallet", 0)
        + FieldOr(fPositions[i], "unrealizedProfit", 0)]

\* C12 as stated: on a successful response the isolated total is the sum of
\* isolatedWallet + unrealizedProfit over exactly the positions whose isolated
\* flag is the boolean true or the string "true", whatever their other fields;
\* cross is totalMarginBalance; total is cross + isolated.
C12_IsolatedSum ==
    (fResult # Pending /\ FuturesSucceeded) =>
        /\ fResult.status = "fulfilled"
        /\ fResult.value.isolated =
               SumValues(PositionValue, {i \in 1..Len(fPositions) : FlagIsTrue(i)})
        /\ fResult.value.cross = FieldOr(fOutcome.data, "totalMarginBalance", 0)
        /\ fResult.value.total = fResult.value.cross + fResult.value.isolated

====
